---- MODULE Spec2Model ----
(***************************************************************************)
(* Topology inventory backend (src/backEnd/src/routes.ts, db.ts): the      *)
(* devices and links tables as ensureSchema declares them, the zod         *)
(* validators, and one action per route handler.  Every handler issues a   *)
(* single SQL statement, which the store executes atomically.              *)
(*                                                                         *)
(* A JSON body is a record holding exactly the keys the request carries    *)
(* (the key "extra" stands for any key no schema names).  SQL NULL is the  *)
(* string Null.  A uuid is a non-negative integer; -1 is a path or body id *)
(* that z.string().uuid() rejects.  Device names are sequences of          *)
(* characters, so that min(2) is a length check.                           *)
(*                                                                         *)
(* The backend process (db.ts start) applies the schema and then listens.  *)
(* The Canvas Controller (TopologyCanvas.tsx) is one browser tab: its      *)
(* React state, the Repository calls it has in flight, and the handler     *)
(* that is suspended at an await.                                          *)
(***************************************************************************)
EXTENDS Integers, FiniteSets, Sequences, TLC

VARIABLES
    devices,     \* devices table: uuid -> row
    links,       \* links table: uuid -> row
    nextUuid,    \* number of rows inserted so far: gen_random_uuid and now()
    storeTypes,  \* the named SQL types that exist in the store
    pending,     \* caller -> its PATCH /devices/:id request in flight
    res,         \* the last response: [op, status, msg], and body for the lists
    server,      \* the backend process: [pc, stmt], stmt schema statements done
    queried,     \* GET /topology between its two queries: devices.rows
    nodes,       \* Canvas Controller: the nodes state, a sequence
    edges,       \* Canvas Controller: the edges state, a sequence
    selectedNodeId,
    selectedEdgeId,
    toast,       \* the notification shown last
    linkFrom,    \* create-link form: source device
    linkTo,      \* create-link form: target device
    calls,       \* the Repository calls the last interaction has issued
    inflight,    \* the Repository calls sent and not yet answered
    task,        \* the handler suspended at an await: [op, ...]
    openConfirmDelete,  \* the delete-confirmation dialog is open
    query,       \* the text of the search input
    reload       \* a load() awaits fetchTopology beside the handler in task

canvasVars ==
    <<nodes, edges, selectedNodeId, selectedEdgeId, toast, linkFrom, linkTo,
      calls, inflight, task, openConfirmDelete, query, reload>>

vars ==
    <<devices, links, nextUuid, storeTypes, pending, res, server, queried,
      canvasVars>>

\* ------------------------------------------------------------- bounds
\* The number of rows inserted over a run.
MaxUuid == 4

Null == "NULL"
\* The n-th insert gets uuid n and created_at n; 0 is a well-formed uuid
\* that gen_random_uuid never issues.
IsUuid(id) == id >= 0

DeviceTypes == {"hub", "switch", "router", "ap", "server"}
Statuses == {"up", "warn", "down"}

Has(b, k) == k \in DOMAIN b
Get(b, k, dflt) == IF k \in DOMAIN b THEN b[k] ELSE dflt
\* zod object schemas are non-strict: keys the schema does not name are
\* stripped from parsed.data, never rejected.
Strip(b, keys) == [k \in (DOMAIN b) \cap keys |-> b[k]]

\* ------------------------------------------------------------- validators
DeviceKeys == {"name", "type", "ip", "status", "x", "y"}

DeviceFieldOk(b, k) ==
    CASE k = "name" -> Len(b[k]) >= 2
      [] k = "type" -> b[k] \in DeviceTypes
      [] k = "status" -> b[k] \in Statuses
      [] OTHER -> TRUE

deviceCreateSchema(b) ==
    /\ Has(b, "name")
    /\ Has(b, "type")
    /\ \A k \in (DOMAIN b) \cap DeviceKeys : DeviceFieldOk(b, k)

deviceUpdateSchema(b) ==
    \A k \in (DOMAIN b) \cap DeviceKeys : DeviceFieldOk(b, k)

PositionKeys == {"x", "y"}

\* The schema with .strict(): unknown keys fail the parse.
devicePositionStrict(b) == DOMAIN b = {"x", "y"}

devicePositionSchema(b) == Has(b, "x") /\ Has(b, "y")

LinkCreateKeys == {"fromId", "toId", "status", "label", "fromHandle", "toHandle"}

linkCreateSchema(b) ==
    /\ Has(b, "fromId") /\ IsUuid(b.fromId)
    /\ Has(b, "toId") /\ IsUuid(b.toId)
    /\ Has(b, "status") => b.status \in Statuses

LinkUpdateKeys == {"status", "label", "fromHandle", "toHandle"}

linkUpdateSchema(b) == Has(b, "status") => b.status \in Statuses

\* ------------------------------------------------------------- store
\* The SQL types the statements of routes.ts cast to.  ensureSchema creates
\* none of them (its columns are text with CHECK constraints), so a store
\* that only ensureSchema prepared has StoreTypesOfSchema; a store that was
\* provisioned beforehand may hold all of them.
CastTypes == {"device_type", "device_status", "link_status"}
StoreTypesOfSchema == {}

\* CHECK constraints and NOT NULL of the devices table.
DeviceRowOk(r) ==
    /\ r.name # Null
    /\ r.type \in DeviceTypes
    /\ r.status \in Statuses

\* links_unique: a unique index treats NULLs as distinct, so two rows
\* collide only when all four columns are equal and none is NULL.
UniqueViolation(ls, self, r) ==
    \E i \in (DOMAIN ls) \ {self} :
        /\ ls[i].from_id = r.from_id
        /\ ls[i].to_id = r.to_id
        /\ ls[i].from_handle = r.from_handle
        /\ ls[i].to_handle = r.to_handle
        /\ r.from_handle # Null
        /\ r.to_handle # Null

\* REFERENCES devices(id) on from_id and to_id.
FkViolation(ds, r) == r.from_id \notin DOMAIN ds \/ r.to_id \notin DOMAIN ds

\* A cascade declared on from_id alone.
CascadeFromOnly(ls, id) ==
    [i \in {j \in DOMAIN ls : ls[j].from_id # id} |-> ls[i]]

\* ON DELETE CASCADE on both foreign keys.
CascadeDelete(ls, id) ==
    [i \in {j \in DOMAIN ls : ls[j].from_id # id /\ ls[j].to_id # id} |-> ls[i]]

\* A store error no handler converts: express routes it to the error
\* middleware (500) or, when the rejected promise of the async handler is
\* not forwarded, no response is sent at all (status 0).
Escaped(op) ==
    { [op |-> op, status |-> 500, msg |-> "Internal server error"],
      [op |-> op, status |-> 0, msg |-> "unhandled rejection"] }

Resp(op, status, msg) == [op |-> op, status |-> status, msg |-> msg]

\* A caller's PATCH /devices/:id request: "built" once its UPDATE statement
\* is assembled and awaits the pool, "done" once it was answered 200.  An
\* answered request is forgotten when any caller starts a new one, so two
\* requests are both "done" only if they were in flight together.
NoPending == [id |-> -1, set |-> <<>>, phase |-> "none"]
Callers == {"c1", "c2"}

NoRows == [i \in {} |-> Null]

\* ------------------------------------------------------------- startup
\* The statements ensureSchema awaits, in order.
SchemaStatements ==
    << "CREATE EXTENSION pgcrypto", "CREATE TABLE devices", "ALTER TABLE devices",
       "CREATE TABLE links", "CREATE UNIQUE INDEX links_unique" >>

\* The process as `start` is called, and once app.listen has run.
Starting == [pc |-> "ensureSchema", stmt |-> 0]
Listening == [pc |-> "listening", stmt |-> Len(SchemaStatements)]

\* useState(null) of the selection, and the "" of the create-link form
\* before any node is loaded: neither is a uuid.
NullId == -2
EmptyId == -3

\* No handler of the Canvas Controller is suspended.
Idle == [op |-> "none"]

\* No GET /topology is between its two queries.
NotQueried == [pc |-> "none"]

\* The store and the browser tab before either process has run.
InitStore ==
    /\ devices = NoRows
    /\ links = NoRows
    /\ nextUuid = 0
    /\ storeTypes \in {StoreTypesOfSchema, CastTypes}
    /\ pending = [c \in Callers |-> NoPending]
    /\ res = Resp("none", 0, "")
    /\ queried = NotQueried

InitCanvasState ==
    /\ nodes = <<>>
    /\ edges = <<>>
    /\ selectedNodeId = NullId
    /\ selectedEdgeId = NullId
    /\ toast = Null
    /\ linkFrom = EmptyId
    /\ linkTo = EmptyId
    /\ calls = <<>>
    /\ inflight = {}
    /\ task = Idle
    /\ openConfirmDelete = FALSE
    /\ query = <<>>
    /\ reload = FALSE

\* The backend serving, no browser tab open.
Init ==
    /\ InitStore
    /\ server = Listening
    /\ InitCanvasState

\* The backend process as it is launched.
InitBoot ==
    /\ InitStore
    /\ server = Starting
    /\ InitCanvasState

\* One awaited pool.query of ensureSchema resolves, or rejects: the
\* rejection passes through ensureSchema and start to the catch of line 89.
\* The statements are idempotent (IF NOT EXISTS): the rows of an existing
\* store stay, and no statement creates a type.
EnsureSchemaStatement ==
    /\ server.pc = "ensureSchema"
    /\ server.stmt < Len(SchemaStatements)
    /\ \E resolved \in BOOLEAN :
           server' = IF resolved THEN [server EXCEPT !.stmt = @ + 1]
                     ELSE [server EXCEPT !.pc = "rejected"]
    /\ UNCHANGED <<devices, links, nextUuid, storeTypes, pending, res, queried, canvasVars>>

\* start with the await of line 85 dropped: app.listen runs at once.
ListenNoAwait ==
    /\ server.pc = "ensureSchema"
    /\ server' = [server EXCEPT !.pc = "listening"]
    /\ UNCHANGED <<devices, links, nextUuid, storeTypes, pending, res, queried, canvasVars>>

\* start, line 86: app.listen, reached when ensureSchema has resolved.
Listen ==
    /\ server.pc = "ensureSchema"
    /\ server.stmt = Len(SchemaStatements)
    /\ server' = [server EXCEPT !.pc = "listening"]
    /\ UNCHANGED <<devices, links, nextUuid, storeTypes, pending, res, queried, canvasVars>>

\* start().catch, lines 89-92: process.exit(1).
StartCatch ==
    /\ server.pc = "rejected"
    /\ server' = [server EXCEPT !.pc = "exited"]
    /\ UNCHANGED <<devices, links, nextUuid, storeTypes, pending, res, queried, canvasVars>>

\* A request reaches a route handler only while the process listens; a
\* handler touches neither the process nor the browser tab.
Route(handler) ==
    /\ server.pc = "listening"
    /\ handler
    /\ UNCHANGED <<server, queried, canvasVars>>

\* ------------------------------------------------------------- devices
\* GET /devices/:id
GetDevice(id) ==
    /\ res' = IF ~IsUuid(id) THEN Resp("GET /devices/:id", 400, "Invalid id")
              ELSE IF id \notin DOMAIN devices
                   THEN Resp("GET /devices/:id", 404, "Device not found")
                   ELSE Resp("GET /devices/:id", 200, "row")
    /\ UNCHANGED <<devices, links, nextUuid, storeTypes, pending>>

\* The row INSERT INTO devices persists: COALESCE supplies the defaults,
\* the store supplies id and created_at.
DeviceRow(data, id, now) ==
    [id |-> id,
     name |-> data.name,
     type |-> data.type,
     ip |-> Get(data, "ip", Null),
     status |-> Get(data, "status", "up"),
     x |-> Get(data, "x", 0),
     y |-> Get(data, "y", 0),
     created_at |-> now]

\* The INSERT of POST /devices names device_type and device_status.
InsertDeviceTypes == {"device_type", "device_status"}

\* POST /devices
PostDevices(b) ==
    IF ~deviceCreateSchema(b)
    THEN /\ res' = Resp("POST /devices", 400, "validation")
         /\ UNCHANGED <<devices, links, nextUuid, storeTypes, pending>>
    ELSE IF ~(InsertDeviceTypes \subseteq storeTypes)
    THEN /\ res' \in Escaped("POST /devices")
         /\ UNCHANGED <<devices, links, nextUuid, storeTypes, pending>>
    ELSE LET id == nextUuid + 1
             row == DeviceRow(Strip(b, DeviceKeys), id, nextUuid + 1)
         IN /\ nextUuid < MaxUuid
            /\ devices' = [i \in (DOMAIN devices) \cup {id} |->
                              IF i = id THEN row ELSE devices[i]]
            /\ nextUuid' = id
            /\ res' = Resp("POST /devices", 201, "row")
            /\ UNCHANGED <<links, storeTypes, pending>>

\* PATCH /devices/:id, lines 104-120: the SET list holds exactly the
\* validated fields of the body that are allowed columns.
AllowedDeviceColumns == {"name", "type", "ip", "status", "x", "y"}
DeviceSet(b) == Strip(Strip(b, DeviceKeys), AllowedDeviceColumns)

\* The casts the dynamic SET list carries.
DeviceSetTypes(set) ==
    {t \in {"device_status", "device_type"} :
        \/ t = "device_status" /\ Has(set, "status")
        \/ t = "device_type" /\ Has(set, "type")}

\* An UPDATE that carries the COALESCE defaults of the INSERT for x and y.
UpdateRowResetsPosition(row, set) ==
    [k \in DOMAIN row |->
        IF k \in DOMAIN set THEN set[k]
        ELSE IF k \in {"x", "y"} THEN 0
        ELSE row[k]]

\* An UPDATE that carries the COALESCE default of the INSERT for status.
UpdateRowResetsStatus(row, set) ==
    [k \in DOMAIN row |->
        IF k \in DOMAIN set THEN set[k]
        ELSE IF k = "status" THEN "up"
        ELSE row[k]]

\* An UPDATE that also refreshes created_at, as a "last touched" column
\* maintained on every write would.
UpdateRowRefreshesCreatedAt(row, set) ==
    [k \in DOMAIN row |-> IF k \in DOMAIN set THEN set[k]
                          ELSE IF k = "created_at" THEN row[k] + MaxUuid + 1
                          ELSE row[k]]

\* UPDATE ... SET col=value for the columns of the SET list, no other.
UpdateRow(row, set) ==
    [k \in DOMAIN row |-> IF k \in DOMAIN set THEN set[k] ELSE row[k]]

\* UPDATE devices SET ... WHERE id=$1 RETURNING *, and the response.
UpdateDevices(id, set) ==
    IF ~(DeviceSetTypes(set) \subseteq storeTypes)
    THEN /\ res' \in Escaped("PATCH /devices/:id")
         /\ UNCHANGED devices
    ELSE IF id \notin DOMAIN devices
    THEN /\ res' = Resp("PATCH /devices/:id", 404, "Device not found")
         /\ UNCHANGED devices
    ELSE IF ~DeviceRowOk(UpdateRow(devices[id], set))
    THEN /\ res' \in Escaped("PATCH /devices/:id")
         /\ UNCHANGED devices
    ELSE /\ devices' = [devices EXCEPT ![id] = UpdateRow(devices[id], set)]
         /\ res' = Resp("PATCH /devices/:id", 200, "row")

\* The handler without its entries.length === 0 check.
PatchDevicesRejectNoEmptyCheck(id, b) ==
    IF ~IsUuid(id) THEN "Invalid id"
    ELSE IF ~deviceUpdateSchema(b) THEN "validation"
    ELSE "none"

\* What PATCH /devices/:id answers before it reaches the store, if anything.
PatchDevicesReject(id, b) ==
    IF ~IsUuid(id) THEN "Invalid id"
    ELSE IF ~deviceUpdateSchema(b) THEN "validation"
    ELSE IF DOMAIN DeviceSet(b) = {} THEN "No fields to update"
    ELSE "none"

\* PATCH /devices/:id, the whole handler.
PatchDevices(id, b) ==
    /\ IF PatchDevicesReject(id, b) # "none"
       THEN /\ res' = Resp("PATCH /devices/:id", 400, PatchDevicesReject(id, b))
            /\ UNCHANGED devices
       ELSE UpdateDevices(id, DeviceSet(b))
    /\ UNCHANGED <<links, nextUuid, storeTypes, pending>>

\* PATCH /devices/:id/position
PatchPosition(id, b) ==
    /\ IF ~IsUuid(id)
       THEN /\ res' = Resp("PATCH /devices/:id/position", 400, "Invalid id")
            /\ UNCHANGED devices
       ELSE IF ~devicePositionSchema(b)
       THEN /\ res' = Resp("PATCH /devices/:id/position", 400, "validation")
            /\ UNCHANGED devices
       ELSE IF id \notin DOMAIN devices
       THEN /\ res' = Resp("PATCH /devices/:id/position", 404, "Device not found")
            /\ UNCHANGED devices
       ELSE /\ devices' = [devices EXCEPT
                              ![id] = UpdateRow(devices[id], Strip(b, PositionKeys))]
            /\ res' = Resp("PATCH /devices/:id/position", 200, "row")
    /\ UNCHANGED <<links, nextUuid, storeTypes, pending>>

\* DELETE /devices/:id
DeleteDevices(id) ==
    /\ IF ~IsUuid(id)
       THEN /\ res' = Resp("DELETE /devices/:id", 400, "Invalid id")
            /\ UNCHANGED <<devices, links>>
       ELSE IF id \notin DOMAIN devices
       THEN /\ res' = Resp("DELETE /devices/:id", 404, "Device not found")
            /\ UNCHANGED <<devices, links>>
       ELSE /\ devices' = [i \in (DOMAIN devices) \ {id} |-> devices[i]]
            /\ links' = CascadeDelete(links, id)
            /\ res' = Resp("DELETE /devices/:id", 204, "")
    /\ UNCHANGED <<nextUuid, storeTypes, pending>>

\* ------------------------------------------------------------- links
\* The row INSERT INTO links persists.
LinkRow(data, id, now) ==
    [id |-> id,
     from_id |-> data.fromId,
     to_id |-> data.toId,
     status |-> Get(data, "status", "up"),
     label |-> Get(data, "label", Null),
     from_handle |-> Get(data, "fromHandle", Null),
     to_handle |-> Get(data, "toHandle", Null),
     created_at |-> now]

\* The INSERT of POST /links names link_status.
InsertLinkTypes == {"link_status"}

\* The catch block of POST /links: the SQLSTATEs it converts.
LinkInsertError(ls, ds, types, row) ==
    IF ~(InsertLinkTypes \subseteq types) THEN "42704"
    ELSE IF UniqueViolation(ls, row.id, row) THEN "23505"
    ELSE IF FkViolation(ds, row) THEN "23503"
    ELSE "none"

\* POST /links
PostLinks(b) ==
    IF ~linkCreateSchema(b)
    THEN /\ res' = Resp("POST /links", 400, "validation")
         /\ UNCHANGED <<devices, links, nextUuid, storeTypes, pending>>
    ELSE LET id == nextUuid + 1
             row == LinkRow(Strip(b, LinkCreateKeys), id, nextUuid + 1)
             err == LinkInsertError(links, devices, storeTypes, row)
         IN IF err = "23505"
            THEN /\ res' = Resp("POST /links", 409, "Link already exists")
                 /\ UNCHANGED <<devices, links, nextUuid, storeTypes, pending>>
            ELSE IF err = "23503"
            THEN /\ res' = Resp("POST /links", 400, "fromId/toId invalid (device not found)")
                 /\ UNCHANGED <<devices, links, nextUuid, storeTypes, pending>>
            ELSE IF err # "none"
            THEN /\ res' \in Escaped("POST /links")
                 /\ UNCHANGED <<devices, links, nextUuid, storeTypes, pending>>
            ELSE /\ nextUuid < MaxUuid
                 /\ links' = [i \in (DOMAIN links) \cup {id} |->
                                 IF i = id THEN row ELSE links[i]]
                 /\ nextUuid' = id
                 /\ res' = Resp("POST /links", 201, "row")
                 /\ UNCHANGED <<devices, storeTypes, pending>>

\* PATCH /links/:id, lines 201-212: body keys mapped to column names, then
\* filtered by the allowed columns.
AllowedLinkColumns == {"status", "label", "from_handle", "to_handle"}
mapKey(k) ==
    IF k = "fromHandle" THEN "from_handle"
    ELSE IF k = "toHandle" THEN "to_handle"
    ELSE k
LinkSet(b) ==
    LET data == Strip(b, LinkUpdateKeys)
        cols == {mapKey(k) : k \in DOMAIN data} \cap AllowedLinkColumns
    IN [c \in cols |-> data[CHOOSE k \in DOMAIN data : mapKey(k) = c]]

LinkSetTypes(set) == IF Has(set, "status") THEN {"link_status"} ELSE {}

\* What PATCH /links/:id answers before it reaches the store, if anything.
PatchLinksReject(id, b) ==
    IF ~IsUuid(id) THEN "Invalid id"
    ELSE IF ~linkUpdateSchema(b) THEN "validation"
    ELSE IF DOMAIN LinkSet(b) = {} THEN "No fields to update"
    ELSE "none"

\* PATCH /links/:id: the UPDATE is not wrapped in a try/catch.
PatchLinks(id, b) ==
    /\ IF PatchLinksReject(id, b) # "none"
       THEN /\ res' = Resp("PATCH /links/:id", 400, PatchLinksReject(id, b))
            /\ UNCHANGED links
       ELSE IF ~(LinkSetTypes(LinkSet(b)) \subseteq storeTypes)
       THEN /\ res' \in Escaped("PATCH /links/:id")
            /\ UNCHANGED links
       ELSE IF id \notin DOMAIN links
       THEN /\ res' = Resp("PATCH /links/:id", 404, "Link not found")
            /\ UNCHANGED links
       ELSE IF UniqueViolation(links, id, UpdateRow(links[id], LinkSet(b)))
       THEN /\ res' \in Escaped("PATCH /links/:id")
            /\ UNCHANGED links
       ELSE /\ links' = [links EXCEPT ![id] = UpdateRow(links[id], LinkSet(b))]
            /\ res' = Resp("PATCH /links/:id", 200, "row")
    /\ UNCHANGED <<devices, nextUuid, storeTypes, pending>>

\* DELETE /links/:id
DeleteLinks(id) ==
    /\ IF ~IsUuid(id)
       THEN /\ res' = Resp("DELETE /links/:id", 400, "Invalid id")
            /\ UNCHANGED links
       ELSE IF id \notin DOMAIN links
       THEN /\ res' = Resp("DELETE /links/:id", 404, "Link not found")
            /\ UNCHANGED links
       ELSE /\ links' = [i \in (DOMAIN links) \ {id} |-> links[i]]
            /\ res' = Resp("DELETE /links/:id", 204, "")
    /\ UNCHANGED <<devices, nextUuid, storeTypes, pending>>

\* ------------------------------------------------------------- listings
\* ORDER BY created_at ASC over a table: the rows, earliest first (the
\* store may return rows of one created_at in any order; none share one,
\* now() differing between any two requests).
OrderByCreatedAt(table) ==
    LET RECURSIVE Sorted(_)
        Sorted(ids) ==
            IF ids = {} THEN <<>>
            ELSE LET first == CHOOSE i \in ids :
                                  \A j \in ids :
                                      table[i].created_at <= table[j].created_at
                 IN <<table[first]>> \o Sorted(ids \ {first})
    IN Sorted(DOMAIN table)

\* res.json(body) of a listing.
ListResp(op, body) == [op |-> op, status |-> 200, msg |-> "body", body |-> body]

\* GET /devices
GetDevices ==
    /\ res' = ListResp("GET /devices", OrderByCreatedAt(devices))
    /\ UNCHANGED <<devices, links, nextUuid, storeTypes, pending>>

\* GET /links
GetLinks ==
    /\ res' = ListResp("GET /links", OrderByCreatedAt(links))
    /\ UNCHANGED <<devices, links, nextUuid, storeTypes, pending>>

\* Number(v): a number is itself, null is 0.
Number(v) == IF v \in Int THEN v ELSE 0

\* `v ?? undefined` for the keys in optional, then JSON.stringify: a key
\* whose column is NULL is absent from the response.
DropUndefined(r, optional) ==
    [k \in {j \in DOMAIN r : j \in optional => r[j] # Null} |-> r[k]]

\* GET /topology, lines 36-41: the node of a devices row.
TopologyNode(d) ==
    [id |-> d.id,
     type |-> "device",
     position |-> [x |-> Number(d.x), y |-> Number(d.y)],
     data |-> DropUndefined([name |-> d.name, type |-> d.type, ip |-> d.ip,
                             status |-> d.status], {"ip"})]

\* The edge with its endpoints exchanged.
TopologyEdgeReversed(l) ==
    DropUndefined([id |-> l.id,
                   source |-> l.to_id,
                   target |-> l.from_id,
                   label |-> l.label,
                   data |-> [status |-> l.status],
                   sourceHandle |-> l.to_handle,
                   targetHandle |-> l.from_handle],
                  {"label", "sourceHandle", "targetHandle"})

\* GET /topology, lines 43-51: the edge of a links row.
TopologyEdge(l) ==
    DropUndefined([id |-> l.id,
                   source |-> l.from_id,
                   target |-> l.to_id,
                   label |-> l.label,
                   data |-> [status |-> l.status],
                   sourceHandle |-> l.from_handle,
                   targetHandle |-> l.to_handle],
                  {"label", "sourceHandle", "targetHandle"})

\* The body GET /topology answers over the tables ds and ls.
Topology(ds, ls) ==
    LET d == OrderByCreatedAt(ds)
        l == OrderByCreatedAt(ls)
    IN [nodes |-> [i \in 1..Len(d) |-> TopologyNode(d[i])],
        edges |-> [i \in 1..Len(l) |-> TopologyEdge(l[i])]]

\* GET /topology, its two queries with no write between them.
GetTopology ==
    /\ res' = ListResp("GET /topology", Topology(devices, links))
    /\ UNCHANGED <<devices, links, nextUuid, storeTypes, pending>>

\* GET /topology to its second await: the devices query has answered
\* (lines 24-28) and the links query is sent.
GetTopologyDevices ==
    /\ queried = NotQueried
    /\ queried' = [pc |-> "devices", rows |-> devices]
    /\ UNCHANGED <<devices, links, nextUuid, storeTypes, pending, res>>

\* GET /topology from its second await: the links query answers and the
\* response is built from the rows of both (lines 30-53).
GetTopologyLinks ==
    /\ queried # NotQueried
    /\ res' = ListResp("GET /topology", Topology(queried.rows, links))
    /\ queried' = NotQueried
    /\ UNCHANGED <<devices, links, nextUuid, storeTypes, pending>>

\* A step of a route that is suspended between two queries.
RouteStep(step) ==
    /\ server.pc = "listening"
    /\ step
    /\ UNCHANGED <<server, canvasVars>>

\* ------------------------------------------------------------- requests
EmptyBody == [k \in {} |-> Null]
ExtraOnly == [extra |-> "z"]

\* Path parameters: every uuid the store may issue, one it never issues (0)
\* and a malformed one (-1).
PathIds == (0..MaxUuid) \cup {-1}
\* The devices the requests of a run address.
TargetIds == {-1, 0, 1, 2}
\* The one device the update routes address, a uuid with no row, a malformed id.
UpdateIds == {-1, 0, 1}
\* The one link the device routes' runs update or delete, likewise.
LinkUpdateIds == {-1, 0, 2}

MinimalDevice == [name |-> <<"S", "W">>, type |-> "switch"]
ShortName == [name |-> <<"R">>, type |-> "router"]

LinkCreateBodies ==
    {[fromId |-> f, toId |-> t] : f, t \in {0, 1, 2}}
    \cup {[fromId |-> f, toId |-> t, fromHandle |-> "a", toHandle |-> "b"] :
              f, t \in {0, 1, 2}}
    \cup { [fromId |-> -1, toId |-> 1], [toId |-> 1] }

LinkUpdateBodies ==
    { EmptyBody, ExtraOnly, [status |-> "bogus"],
      [fromHandle |-> "a", toHandle |-> "b"] }

\* The link routes, over stores whose devices are created and deleted.
Next ==
    \/ \E b \in {MinimalDevice, ShortName} : Route(PostDevices(b))
    \/ \E id \in TargetIds : Route(DeleteDevices(id))
    \/ \E b \in LinkCreateBodies : Route(PostLinks(b))
    \/ \E id \in PathIds, b \in LinkUpdateBodies : Route(PatchLinks(id, b))
    \/ \E id \in PathIds : Route(DeleteLinks(id))

Spec == Init /\ [][Next]_vars

\* ------------------------------------------------------------- device routes
DeviceUpdateBodies ==
    { EmptyBody, ExtraOnly, [status |-> "warn"], [type |-> "bogus"],
      [name |-> <<"H", "B">>, x |-> 7, extra |-> "z"] }

PositionBodies ==
    { [x |-> 1, y |-> 2], [x |-> 1], [y |-> 2], [x |-> 3, y |-> 4, extra |-> "z"] }

SelfLink == [fromId |-> 1, toId |-> 1]

LinkStatusBodies == { EmptyBody, ExtraOnly, [status |-> "warn"] }

\* The device routes, with links on the device they update.
NextDev ==
    \/ \E id \in UpdateIds : Route(GetDevice(id))
    \/ \E b \in {MinimalDevice, ShortName} : Route(PostDevices(b))
    \/ \E id \in UpdateIds, b \in DeviceUpdateBodies : Route(PatchDevices(id, b))
    \/ \E id \in UpdateIds, b \in PositionBodies : Route(PatchPosition(id, b))
    \/ \E id \in UpdateIds : Route(DeleteDevices(id))
    \/ Route(PostLinks(SelfLink))
    \/ \E id \in LinkUpdateIds, b \in LinkStatusBodies : Route(PatchLinks(id, b))
    \/ \E id \in LinkUpdateIds : Route(DeleteLinks(id))

SpecDev == Init /\ [][NextDev]_vars

\* ------------------------------------------------------------- concurrent updates
\* PATCH /devices/:id up to the await of line 123: validation and the
\* assembly of the statement touch no shared state.
PatchDevicesBuild(c, id, b) ==
    /\ pending[c].phase # "built"
    /\ IF PatchDevicesReject(id, b) # "none"
       THEN /\ res' = Resp("PATCH /devices/:id", 400, PatchDevicesReject(id, b))
            /\ UNCHANGED pending
       ELSE /\ pending' = [d \in Callers |->
                              IF d = c
                              THEN [id |-> id, set |-> DeviceSet(b), phase |-> "built"]
                              ELSE IF pending[d].phase = "done" THEN NoPending
                              ELSE pending[d]]
            /\ UNCHANGED res
    /\ UNCHANGED <<devices, links, nextUuid, storeTypes>>

\* PATCH /devices/:id from line 123: the store executes the statement,
\* atomically, and the handler answers.
PatchDevicesQuery(c) ==
    /\ pending[c].phase = "built"
    /\ UpdateDevices(pending[c].id, pending[c].set)
    /\ pending' = [pending EXCEPT ![c] =
                      IF res'.status = 200 THEN [@ EXCEPT !.phase = "done"]
                      ELSE NoPending]
    /\ UNCHANGED <<links, nextUuid, storeTypes>>

ConcurrentBodies ==
    { EmptyBody, [status |-> "warn"], [x |-> 7], [status |-> "down", x |-> 9] }

\* Two callers updating device 1 through requests that overlap in time.
NextConc ==
    \/ Route(PostDevices(MinimalDevice))
    \/ \E c \in Callers, id \in {0, 1}, b \in ConcurrentBodies :
           Route(PatchDevicesBuild(c, id, b))
    \/ \E c \in Callers : Route(PatchDevicesQuery(c))
    \/ Route(DeleteDevices(1))

SpecConc == Init /\ [][NextConc]_vars

\* ------------------------------------------------------------- serving
PlacedDevice ==
    [name |-> <<"A", "P">>, type |-> "ap", ip |-> "10.0.0.1", x |-> 3, y |-> 4]

ListedLinks ==
    { [fromId |-> 1, toId |-> 2], [fromId |-> 2, toId |-> 1, label |-> "UPLINK"] }

\* The device a serving run updates, and the rows it deletes.
ListedIds == {1}
UnlistedIds == {1, 3}

\* The process from its launch: the schema, then the routes and listings.
NextServe ==
    \/ EnsureSchemaStatement
    \/ Listen
    \/ StartCatch
    \/ \E b \in {MinimalDevice, PlacedDevice} : Route(PostDevices(b))
    \/ \E id \in ListedIds : Route(PatchDevices(id, [status |-> "warn"]))
    \/ \E id \in ListedIds : Route(PatchPosition(id, [x |-> 1, y |-> 2]))
    \/ \E id \in UnlistedIds : Route(DeleteDevices(id))
    \/ \E b \in ListedLinks : Route(PostLinks(b))
    \/ \E id \in UnlistedIds : Route(PatchLinks(id, [status |-> "down"]))
    \/ \E id \in UnlistedIds : Route(DeleteLinks(id))
    \/ Route(GetDevices)
    \/ Route(GetLinks)
    \/ Route(GetTopology)

SpecServe == InitBoot /\ [][NextServe]_vars

\* GET /topology while other clients create and delete devices and links.
NextTopology ==
    \/ RouteStep(GetTopologyDevices)
    \/ RouteStep(GetTopologyLinks)
    \/ \E b \in {MinimalDevice, PlacedDevice} : Route(PostDevices(b))
    \/ \E b \in ListedLinks : Route(PostLinks(b))
    \/ \E id \in UnlistedIds : Route(DeleteDevices(id))
    \/ \E id \in UnlistedIds : Route(DeleteLinks(id))

SpecTopology == Init /\ [][NextTopology]_vars

\* ------------------------------------------------------------- api client
\* The request each wrapper of api/topology hands to api(): the wrapper,
\* the id in the path and the JSON body.
fetchTopology == [call |-> "fetchTopology", id |-> NullId, json |-> EmptyBody]
createDevice(payload) == [call |-> "createDevice", id |-> NullId, json |-> payload]
patchDevicePositionSwapped(id, x, y) ==
    [call |-> "patchDevicePosition", id |-> id, json |-> [x |-> y, y |-> x]]
patchDevicePosition(id, x, y) ==
    [call |-> "patchDevicePosition", id |-> id, json |-> [x |-> x, y |-> y]]
patchDeviceStatus(id, status) ==
    [call |-> "patchDeviceStatus", id |-> id, json |-> [status |-> status]]
\* A wrapper that deletes under /links.
deleteDeviceAsLink(id) == [call |-> "deleteLink", id |-> id, json |-> EmptyBody]

deleteDevice(id) == [call |-> "deleteDevice", id |-> id, json |-> EmptyBody]
createLink(payload) == [call |-> "createLink", id |-> NullId, json |-> payload]
patchLinkStatus(id, status) ==
    [call |-> "patchLinkStatus", id |-> id, json |-> [status |-> status]]
deleteLink(id) == [call |-> "deleteLink", id |-> id, json |-> EmptyBody]

\* The route a request reaches.
Handler(req) ==
    \/ req.call = "fetchTopology" /\ GetTopology
    \/ req.call = "createDevice" /\ PostDevices(req.json)
    \/ req.call = "patchDevicePosition" /\ PatchPosition(req.id, req.json)
    \/ req.call = "patchDeviceStatus" /\ PatchDevices(req.id, req.json)
    \/ req.call = "deleteDevice" /\ DeleteDevices(req.id)
    \/ req.call = "createLink" /\ PostLinks(req.json)
    \/ req.call = "patchLinkStatus" /\ PatchLinks(req.id, req.json)
    \/ req.call = "deleteLink" /\ DeleteLinks(req.id)

\* api(path, options), settling: the fetch reaches the route and is
\* answered, or, the process not listening, it rejects and nothing is
\* answered.
api(req) ==
    /\ IF server.pc = "listening"
       THEN Handler(req)
       ELSE UNCHANGED <<devices, links, nextUuid, storeTypes, pending, res>>
    /\ UNCHANGED <<server, queried>>

\* An api that never looks at res.ok.
FulfilledWhateverStatus == server.pc = "listening"

\* api resolves on res.ok alone: it throws on any other status, and the
\* fetch rejects where the handler sent no response (status 0).
Fulfilled == server.pc = "listening" /\ res'.status \in 200..299

\* ------------------------------------------------------------- canvas controller
NodeIds == {nodes[i].id : i \in 1..Len(nodes)}
EdgeIds == {edges[i].id : i \in 1..Len(edges)}

\* nodes.find(n => n.id === selectedNodeId) ?? null, as the id found.
selectedNode == IF selectedNodeId \in NodeIds THEN selectedNodeId ELSE NullId
selectedEdge == IF selectedEdgeId \in EdgeIds THEN selectedEdgeId ELSE NullId

edgeColor(status) ==
    IF status = "up" THEN "#22c55e"
    ELSE IF status = "warn" THEN "#f59e0b"
    ELSE "#ef4444"

\* toFlowEdge: sourceHandle and targetHandle are not carried over.
toFlowEdge(e) ==
    LET status == e.data.status
    IN [k \in (DOMAIN e \cap {"id", "source", "target", "label"})
              \cup {"data", "animated", "stroke"} |->
           IF k = "data" THEN [status |-> status]
           ELSE IF k = "animated" THEN status # "up"
           ELSE IF k = "stroke" THEN edgeColor(status)
           ELSE e[k]]

\* rfNodes[i]?.id ?? ""
IdAtOrEmpty(seq, i) == IF i <= Len(seq) THEN seq[i].id ELSE EmptyId

\* A handler that returns without calling load().
ReturnWithoutLoad(issued, flying) ==
    /\ calls' = issued
    /\ inflight' = flying
    /\ task' = Idle

\* A handler calls load(): setLoading, then fetchTopology is sent and
\* awaited (lines 125-127).
CallLoad(issued, flying) ==
    /\ calls' = Append(issued, fetchTopology)
    /\ inflight' = flying \cup {fetchTopology}
    /\ task' = [op |-> "load"]

\* A handler sends its one request and awaits it.
Send(op, req) ==
    /\ calls' = <<req>>
    /\ inflight' = inflight \cup {req}
    /\ task' = [op |-> op, req |-> req]

\* The awaited request of handler op settles.
Settle(op) ==
    /\ task.op = op
    /\ task.req \in inflight
    /\ api(task.req)

\* load, from a click on the reload button.
load ==
    /\ task = Idle
    /\ CallLoad(<<>>, inflight)
    /\ UNCHANGED <<devices, links, nextUuid, storeTypes, pending, res, server, queried>>
    /\ UNCHANGED <<nodes, edges, selectedNodeId, selectedEdgeId, toast, linkFrom, linkTo>>
    /\ UNCHANGED <<openConfirmDelete, query, reload>>

\* load, lines 127-148: the awaited fetchTopology settles.
loadSettled ==
    /\ task.op = "load"
    /\ fetchTopology \in inflight
    /\ api(fetchTopology)
    /\ inflight' = inflight \ {fetchTopology}
    /\ task' = Idle
    /\ IF Fulfilled
       THEN LET topo == res'.body
            IN /\ nodes' = topo.nodes
               /\ edges' = [i \in 1..Len(topo.edges) |-> toFlowEdge(topo.edges[i])]
               /\ linkFrom' = IdAtOrEmpty(topo.nodes, 1)
               /\ linkTo' = IdAtOrEmpty(topo.nodes, 2)
               /\ UNCHANGED toast
       ELSE /\ toast' = "Erro ao carregar"
            /\ UNCHANGED <<nodes, edges, linkFrom, linkTo>>
    /\ UNCHANGED <<selectedNodeId, selectedEdgeId, calls>>
    /\ UNCHANGED <<openConfirmDelete, query, reload>>

\* load, from a click on the reload button while a status change may be
\* suspended: the handlers are independent closures, and nothing keeps one
\* from starting while the other awaits.
loadOverlapping ==
    /\ ~reload
    /\ task.op \in {"none", "changeNodeStatus", "changeEdgeStatus"}
    /\ fetchTopology \notin inflight
    /\ reload' = TRUE
    /\ calls' = <<fetchTopology>>
    /\ inflight' = inflight \cup {fetchTopology}
    /\ UNCHANGED <<devices, links, nextUuid, storeTypes, pending, res, server, queried>>
    /\ UNCHANGED <<nodes, edges, selectedNodeId, selectedEdgeId, toast, linkFrom,
                   linkTo, task, openConfirmDelete, query>>

\* load, lines 127-148, of the overlapping reload: the route, which has
\* run its devices query, runs its links query and answers, and the
\* response replaces nodes and edges; or the fetch rejects, the process
\* not listening.
loadOverlappingSettled ==
    /\ reload
    /\ fetchTopology \in inflight
    /\ IF server.pc = "listening"
       THEN queried # NotQueried /\ GetTopologyLinks
       ELSE UNCHANGED <<devices, links, nextUuid, storeTypes, pending, res, queried>>
    /\ reload' = FALSE
    /\ inflight' = inflight \ {fetchTopology}
    /\ IF Fulfilled
       THEN LET topo == res'.body
            IN /\ nodes' = topo.nodes
               /\ edges' = [i \in 1..Len(topo.edges) |-> toFlowEdge(topo.edges[i])]
               /\ linkFrom' = IdAtOrEmpty(topo.nodes, 1)
               /\ linkTo' = IdAtOrEmpty(topo.nodes, 2)
               /\ UNCHANGED toast
       ELSE /\ toast' = "Erro ao carregar"
            /\ UNCHANGED <<nodes, edges, linkFrom, linkTo>>
    /\ UNCHANGED <<server, selectedNodeId, selectedEdgeId, calls, task,
                   openConfirmDelete, query>>

\* onSelectionChange: the first node and the first edge the canvas reports
\* as selected, NullId standing for an empty list.
onSelectionChange(firstNode, firstEdge) ==
    /\ selectedNodeId' = firstNode
    /\ selectedEdgeId' = firstEdge
    /\ UNCHANGED <<devices, links, nextUuid, storeTypes, pending, res, server, queried>>
    /\ UNCHANGED <<nodes, edges, toast, linkFrom, linkTo, calls, inflight, task>>
    /\ UNCHANGED <<openConfirmDelete, query, reload>>

\* zoomToNode
zoomToNode(id) ==
    /\ IF id \in NodeIds
       THEN selectedNodeId' = id /\ selectedEdgeId' = NullId
       ELSE UNCHANGED <<selectedNodeId, selectedEdgeId>>
    /\ UNCHANGED <<devices, links, nextUuid, storeTypes, pending, res, server, queried>>
    /\ UNCHANGED <<nodes, edges, toast, linkFrom, linkTo, calls, inflight, task>>
    /\ UNCHANGED <<openConfirmDelete, query, reload>>

\* A setNodes whose map forgets to compare ids.
SetNodeStatusOfAll(ns, id, status) ==
    [i \in 1..Len(ns) |-> [ns[i] EXCEPT !.data.status = status]]

\* setNodes of changeNodeStatus, lines 190-192.
SetNodeStatus(ns, id, status) ==
    [i \in 1..Len(ns) |->
        IF ns[i].id = id THEN [ns[i] EXCEPT !.data.status = status] ELSE ns[i]]

\* setEdges of changeEdgeStatus, lines 207-217.
SetEdgeStatus(es, id, status) ==
    [i \in 1..Len(es) |->
        IF es[i].id = id
        THEN [es[i] EXCEPT !.data.status = status,
                           !.animated = (status # "up"),
                           !.stroke = edgeColor(status)]
        ELSE es[i]]

\* changeNodeStatus, to the await of line 189.
changeNodeStatus(status) ==
    /\ task = Idle
    /\ selectedNode # NullId
    /\ Send("changeNodeStatus", patchDeviceStatus(selectedNode, status))
    /\ UNCHANGED <<devices, links, nextUuid, storeTypes, pending, res, server, queried>>
    /\ UNCHANGED <<nodes, edges, selectedNodeId, selectedEdgeId, toast, linkFrom, linkTo>>
    /\ UNCHANGED <<openConfirmDelete, query, reload>>

\* changeNodeStatus, lines 189-197.
changeNodeStatusSettled ==
    /\ Settle("changeNodeStatus")
    /\ inflight' = inflight \ {task.req}
    /\ task' = Idle
    /\ IF Fulfilled
       THEN /\ nodes' = SetNodeStatus(nodes, task.req.id, task.req.json.status)
            /\ toast' = "Status do equipamento atualizado"
       ELSE /\ toast' = "Falha ao atualizar"
            /\ UNCHANGED nodes
    /\ UNCHANGED <<edges, selectedNodeId, selectedEdgeId, linkFrom, linkTo, calls>>
    /\ UNCHANGED <<openConfirmDelete, query, reload>>

\* changeEdgeStatus, to the await of line 206.
changeEdgeStatus(status) ==
    /\ task = Idle
    /\ selectedEdge # NullId
    /\ Send("changeEdgeStatus", patchLinkStatus(selectedEdge, status))
    /\ UNCHANGED <<devices, links, nextUuid, storeTypes, pending, res, server, queried>>
    /\ UNCHANGED <<nodes, edges, selectedNodeId, selectedEdgeId, toast, linkFrom, linkTo>>
    /\ UNCHANGED <<openConfirmDelete, query, reload>>

\* changeEdgeStatus, lines 206-222.
changeEdgeStatusSettled ==
    /\ Settle("changeEdgeStatus")
    /\ inflight' = inflight \ {task.req}
    /\ task' = Idle
    /\ IF Fulfilled
       THEN /\ edges' = SetEdgeStatus(edges, task.req.id, task.req.json.status)
            /\ toast' = "Status do link atualizado"
       ELSE /\ toast' = "Falha ao atualizar link"
            /\ UNCHANGED edges
    /\ UNCHANGED <<nodes, selectedNodeId, selectedEdgeId, linkFrom, linkTo, calls>>
    /\ UNCHANGED <<openConfirmDelete, query, reload>>

\* The canvas moves a dragged node (onNodesChange).
MoveNode(ns, id, x, y) ==
    [i \in 1..Len(ns) |->
        IF ns[i].id = id THEN [ns[i] EXCEPT !.position = [x |-> x, y |-> y]]
        ELSE ns[i]]

\* A node is dragged to (x, y) and released: onNodeDragStop, to its await.
onNodeDragStop(id, x, y) ==
    /\ task = Idle
    /\ id \in NodeIds
    /\ nodes' = MoveNode(nodes, id, x, y)
    /\ Send("onNodeDragStop", patchDevicePosition(id, x, y))
    /\ UNCHANGED <<devices, links, nextUuid, storeTypes, pending, res, server, queried>>
    /\ UNCHANGED <<edges, selectedNodeId, selectedEdgeId, toast, linkFrom, linkTo>>
    /\ UNCHANGED <<openConfirmDelete, query, reload>>

\* onNodeDragStop, lines 159-164.
onNodeDragStopSettled ==
    /\ Settle("onNodeDragStop")
    /\ inflight' = inflight \ {task.req}
    /\ task' = Idle
    /\ toast' = IF Fulfilled THEN "Posicao salva" ELSE "Falha ao salvar posicao"
    /\ UNCHANGED <<nodes, edges, selectedNodeId, selectedEdgeId, linkFrom, linkTo, calls>>
    /\ UNCHANGED <<openConfirmDelete, query, reload>>

\* String.prototype.trim over a sequence of characters.
Trim(str) ==
    LET RECURSIVE TrimStart(_)
        TrimStart(t) == IF t # <<>> /\ Head(t) = " " THEN TrimStart(Tail(t)) ELSE t
        RECURSIVE TrimEnd(_)
        TrimEnd(t) == IF t # <<>> /\ t[Len(t)] = " "
                      THEN TrimEnd(SubSeq(t, 1, Len(t) - 1)) ELSE t
    IN TrimEnd(TrimStart(str))

\* The other texts of the forms are atoms, blank or free of surrounding
\* blanks: trim empties the first and keeps the second.
TrimText(text) == IF text = " " THEN "" ELSE text

\* `v.trim() ? v.trim() : undefined` as a field of a payload.
Optional(key, text) ==
    IF TrimText(text) = "" THEN EmptyBody ELSE [k \in {key} |-> TrimText(text)]

\* Two payload fragments with different keys, as one object.
Merge(a, b) ==
    [k \in DOMAIN a \cup DOMAIN b |-> IF k \in DOMAIN a THEN a[k] ELSE b[k]]

\* submitCreateDevice, to the await of line 237; center is what
\* rf.screenToFlowPosition answers for the middle of the window.
submitCreateDevice(devName, devType, devIp, center) ==
    /\ task = Idle
    /\ IF Len(Trim(devName)) < 2
       THEN /\ toast' = "Nome muito curto."
            /\ calls' = <<>>
            /\ UNCHANGED <<inflight, task>>
       ELSE /\ Send("submitCreateDevice",
                    createDevice(Merge([name |-> Trim(devName), type |-> devType,
                                        status |-> "up", x |-> center.x,
                                        y |-> center.y],
                                       Optional("ip", devIp))))
            /\ UNCHANGED toast
    /\ UNCHANGED <<devices, links, nextUuid, storeTypes, pending, res, server, queried>>
    /\ UNCHANGED <<nodes, edges, selectedNodeId, selectedEdgeId, linkFrom, linkTo>>
    /\ UNCHANGED <<openConfirmDelete, query, reload>>

\* submitCreateDevice, lines 237-254.
submitCreateDeviceSettled ==
    /\ Settle("submitCreateDevice")
    /\ IF Fulfilled
       THEN /\ toast' = "Equipamento criado"
            /\ CallLoad(calls, inflight \ {task.req})
       ELSE /\ toast' = "Erro ao criar"
            /\ inflight' = inflight \ {task.req}
            /\ task' = Idle
            /\ UNCHANGED calls
    /\ UNCHANGED <<nodes, edges, selectedNodeId, selectedEdgeId, linkFrom, linkTo>>
    /\ UNCHANGED <<openConfirmDelete, query, reload>>

\* The selects of the create-link form offer the loaded nodes.
setLinkFrom(id) ==
    /\ id \in NodeIds
    /\ linkFrom' = id
    /\ UNCHANGED <<devices, links, nextUuid, storeTypes, pending, res, server, queried>>
    /\ UNCHANGED <<nodes, edges, selectedNodeId, selectedEdgeId, toast, linkTo,
                   calls, inflight, task>>
    /\ UNCHANGED <<openConfirmDelete, query, reload>>

setLinkTo(id) ==
    /\ id \in NodeIds
    /\ linkTo' = id
    /\ UNCHANGED <<devices, links, nextUuid, storeTypes, pending, res, server, queried>>
    /\ UNCHANGED <<nodes, edges, selectedNodeId, selectedEdgeId, toast, linkFrom,
                   calls, inflight, task>>
    /\ UNCHANGED <<openConfirmDelete, query, reload>>

\* The guards without the comparison of line 260.
submitCreateLinkRejectEmpty(from, to) ==
    IF from = EmptyId \/ to = EmptyId THEN "Selecione origem e destino."
    ELSE "none"

\* The guards of submitCreateLink, lines 259-260: the notification shown
\* instead of a request, or "none".
submitCreateLinkReject(from, to) ==
    IF from = EmptyId \/ to = EmptyId THEN "Selecione origem e destino."
    ELSE IF from = to THEN "Origem e destino nao podem ser iguais."
    ELSE "none"

\* submitCreateLink, to the await of line 263.
submitCreateLink(linkLabel) ==
    /\ task = Idle
    /\ IF submitCreateLinkReject(linkFrom, linkTo) # "none"
       THEN /\ toast' = submitCreateLinkReject(linkFrom, linkTo)
            /\ calls' = <<>>
            /\ UNCHANGED <<inflight, task>>
       ELSE /\ Send("submitCreateLink",
                    createLink(Merge([fromId |-> linkFrom, toId |-> linkTo,
                                      status |-> "up"],
                                     Optional("label", linkLabel))))
            /\ UNCHANGED toast
    /\ UNCHANGED <<devices, links, nextUuid, storeTypes, pending, res, server, queried>>
    /\ UNCHANGED <<nodes, edges, selectedNodeId, selectedEdgeId, linkFrom, linkTo>>
    /\ UNCHANGED <<openConfirmDelete, query, reload>>

\* submitCreateLink, lines 263-277.
submitCreateLinkSettled ==
    /\ Settle("submitCreateLink")
    /\ IF Fulfilled
       THEN /\ toast' = "Link criado"
            /\ CallLoad(calls, inflight \ {task.req})
       ELSE /\ toast' = "Erro ao conectar"
            /\ inflight' = inflight \ {task.req}
            /\ task' = Idle
            /\ UNCHANGED calls
    /\ UNCHANGED <<nodes, edges, selectedNodeId, selectedEdgeId, linkFrom, linkTo>>
    /\ UNCHANGED <<openConfirmDelete, query, reload>>

\* confirmDelete, to its first await: of the delete call, or, nothing
\* being selected, of load (lines 290-296).
confirmDelete ==
    /\ task = Idle
    /\ IF selectedNode # NullId
       THEN /\ Send("confirmDelete", deleteDevice(selectedNode))
            /\ UNCHANGED <<toast, selectedNodeId, selectedEdgeId, openConfirmDelete>>
       ELSE IF selectedEdge # NullId
       THEN /\ Send("confirmDelete", deleteLink(selectedEdge))
            /\ UNCHANGED <<toast, selectedNodeId, selectedEdgeId, openConfirmDelete>>
       ELSE /\ toast' = "Nada selecionado."
            /\ openConfirmDelete' = FALSE
            /\ selectedNodeId' = NullId
            /\ selectedEdgeId' = NullId
            /\ CallLoad(<<>>, inflight)
    /\ UNCHANGED <<devices, links, nextUuid, storeTypes, pending, res, server, queried>>
    /\ UNCHANGED <<nodes, edges, linkFrom, linkTo>>
    /\ UNCHANGED <<query, reload>>

\* confirmDelete, lines 284-300.
confirmDeleteSettled ==
    /\ Settle("confirmDelete")
    /\ IF Fulfilled
       THEN /\ toast' = IF task.req.call = "deleteDevice"
                        THEN "Equipamento deletado" ELSE "Link deletado"
            /\ openConfirmDelete' = FALSE
            /\ selectedNodeId' = NullId
            /\ selectedEdgeId' = NullId
            /\ CallLoad(calls, inflight \ {task.req})
       ELSE /\ toast' = "Erro ao deletar"
            /\ inflight' = inflight \ {task.req}
            /\ task' = Idle
            /\ UNCHANGED <<calls, selectedNodeId, selectedEdgeId, openConfirmDelete>>
    /\ UNCHANGED <<nodes, edges, linkFrom, linkTo>>
    /\ UNCHANGED <<query, reload>>

\* The keydown listener of lines 347-356: Delete and Backspace open the
\* confirmation when something is selected; Ctrl+K focuses the search
\* input, which is no state of the controller.
onKeyDown(key) ==
    /\ IF key \in {"Delete", "Backspace"}
          /\ (selectedNode # NullId \/ selectedEdge # NullId)
       THEN openConfirmDelete' = TRUE
       ELSE UNCHANGED openConfirmDelete
    /\ UNCHANGED <<devices, links, nextUuid, storeTypes, pending, res, server, queried>>
    /\ UNCHANGED <<nodes, edges, selectedNodeId, selectedEdgeId, toast, linkFrom,
                   linkTo, calls, inflight, task, query, reload>>

\* setOpenConfirmDelete from the buttons: "Deletar" of the toolbar, enabled
\* while something is selected (lines 453-454), and "Cancelar" or the
\* closing of the dialog (lines 635, 647).
setOpenConfirmDelete(open) ==
    /\ open => (selectedNode # NullId \/ selectedEdge # NullId)
    /\ open \/ openConfirmDelete
    /\ openConfirmDelete' = open
    /\ UNCHANGED <<devices, links, nextUuid, storeTypes, pending, res, server, queried>>
    /\ UNCHANGED <<nodes, edges, selectedNodeId, selectedEdgeId, toast, linkFrom,
                   linkTo, calls, inflight, task, query, reload>>

\* The letters the texts of a run are written with, and their lower case.
UpperCase == <<"A", "P", "S", "W">>
LowerCase == <<"a", "p", "s", "w">>

\* String.prototype.toLowerCase, on a sequence of characters.
toLowerCase(text) ==
    [i \in 1..Len(text) |->
        IF \E k \in 1..Len(UpperCase) : UpperCase[k] = text[i]
        THEN LowerCase[CHOOSE k \in 1..Len(UpperCase) : UpperCase[k] = text[i]]
        ELSE text[i]]

\* The characters of the texts a node holds as atoms: its type, and its ip
\* (n.data.ip ?? "" where it has none).
Chars(text) ==
    CASE text = "" -> <<>>
      [] text = "ap" -> <<"a", "p">>
      [] text = "router" -> <<"r", "o", "u", "t", "e", "r">>
      [] text = "switch" -> <<"s", "w", "i", "t", "c", "h">>
      [] text = "10.0.0.1" -> <<"1", "0", ".", "0", ".", "0", ".", "1">>

\* The characters of a node id: the uuid of row n is written as the digit n.
IdChars(id) == <<(<<"1", "2", "3", "4", "5", "6", "7", "8", "9">>)[id]>>

\* A test that looks at the start of the text only.
startsWith(text, q) == Len(q) <= Len(text) /\ SubSeq(text, 1, Len(q)) = q

\* String.prototype.includes
includes(text, q) ==
    \E i \in 0..(Len(text) - Len(q)) : SubSeq(text, i + 1, i + Len(q)) = q

\* The filteredNodes memo, lines 304-314.
filteredNodes ==
    LET q == toLowerCase(Trim(query))
        Matches(n) ==
            LET name == toLowerCase(n.data.name)
                ip == toLowerCase(Chars(IF "ip" \in DOMAIN n.data THEN n.data.ip ELSE ""))
                type == toLowerCase(Chars(n.data.type))
            IN \/ includes(name, q)
               \/ includes(ip, q)
               \/ includes(type, q)
               \/ includes(toLowerCase(IdChars(n.id)), q)
    IN IF q = <<>> THEN <<>> ELSE SelectSeq(nodes, Matches)

\* onChange of the search input, line 393.
setQuery(value) ==
    /\ query' = value
    /\ UNCHANGED <<devices, links, nextUuid, storeTypes, pending, res, server, queried>>
    /\ UNCHANGED <<nodes, edges, selectedNodeId, selectedEdgeId, toast, linkFrom,
                   linkTo, calls, inflight, task, openConfirmDelete, reload>>

\* dagre.layout is a library routine: it is stood for by the placement of
\* a graph without edges, the i-th node in the i-th column of one rank
\* (node width 220, nodesep 55, height 70).
DagreNode(i) == [x |-> 110 + (i - 1) * (220 + 55), y |-> 35]

\* layoutWithDagre, lines 78-84.
layoutWithDagre(ns, es) ==
    [i \in 1..Len(ns) |->
        [ns[i] EXCEPT !.position = [x |-> DagreNode(i).x - 110,
                                    y |-> DagreNode(i).y - 35]]]

\* A batch that leaves out the last node.
PositionRequestsButLast(laidOut) ==
    [i \in 1..(Len(laidOut) - 1) |->
        patchDevicePosition(laidOut[i].id, laidOut[i].position.x,
                            laidOut[i].position.y)]

\* laidOut.map((n) => patchDevicePosition(...)), line 334: every call is
\* made, and its request sent, before Promise.all is awaited.
PositionRequests(laidOut) ==
    [i \in 1..Len(laidOut) |->
        patchDevicePosition(laidOut[i].id, laidOut[i].position.x,
                            laidOut[i].position.y)]

Range(seq) == {seq[i] : i \in 1..Len(seq)}

\* autoLayoutAndSave, to the await of line 333; the suspended handler
\* keeps the nodes of its render in its closure.  Promise.all of no
\* promise is fulfilled with no request to wait for.
autoLayoutAndSave ==
    /\ task = Idle
    /\ LET laidOut == layoutWithDagre(nodes, edges)
           requests == PositionRequests(laidOut)
       IN /\ nodes' = laidOut
          /\ calls' = requests
          /\ inflight' = inflight \cup Range(requests)
          /\ IF requests = <<>>
             THEN /\ toast' = "Layout aplicado e salvo"
                  /\ task' = Idle
             ELSE /\ task' = [op |-> "autoLayoutAndSave", awaiting |-> Range(requests),
                              nodes |-> nodes]
                  /\ UNCHANGED toast
    /\ UNCHANGED <<devices, links, nextUuid, storeTypes, pending, res, server, queried>>
    /\ UNCHANGED <<edges, selectedNodeId, selectedEdgeId, linkFrom, linkTo>>
    /\ UNCHANGED <<openConfirmDelete, query, reload>>

\* One request of the batch settles while Promise.all is awaited: the
\* first rejection rejects Promise.all and runs the catch of line 339,
\* the last fulfilment fulfils it (lines 337-338).
autoLayoutRequestSettled(req) ==
    /\ task.op = "autoLayoutAndSave"
    /\ req \in task.awaiting
    /\ req \in inflight
    /\ api(req)
    /\ inflight' = inflight \ {req}
    /\ IF ~Fulfilled
       THEN /\ toast' = "Erro no layout"
            /\ task' = Idle
       ELSE IF task.awaiting = {req}
       THEN /\ toast' = "Layout aplicado e salvo"
            /\ task' = Idle
       ELSE /\ task' = [task EXCEPT !.awaiting = @ \ {req}]
            /\ UNCHANGED toast
    /\ UNCHANGED <<nodes, edges, selectedNodeId, selectedEdgeId, linkFrom, linkTo, calls>>
    /\ UNCHANGED <<openConfirmDelete, query, reload>>

\* A request of a batch whose Promise.all has already rejected settles:
\* no handler awaits it any more.
abandonedRequestSettled(req) ==
    /\ req \in inflight
    /\ req.call = "patchDevicePosition"
    /\ ~(task.op = "autoLayoutAndSave" /\ req \in task.awaiting)
    /\ ~(task.op = "onNodeDragStop" /\ req = task.req)
    /\ api(req)
    /\ inflight' = inflight \ {req}
    /\ UNCHANGED <<nodes, edges, selectedNodeId, selectedEdgeId, toast, linkFrom,
                   linkTo, calls, task>>
    /\ UNCHANGED <<openConfirmDelete, query, reload>>

\* ------------------------------------------------------------- one browser tab
\* The tab once mounted: the effect of line 151 has called load.
InitCanvas ==
    /\ InitStore
    /\ server = Starting
    /\ nodes = <<>>
    /\ edges = <<>>
    /\ selectedNodeId = NullId
    /\ selectedEdgeId = NullId
    /\ toast = Null
    /\ linkFrom = EmptyId
    /\ linkTo = EmptyId
    /\ calls = <<fetchTopology>>
    /\ inflight = {fetchTopology}
    /\ task = [op |-> "load"]
    /\ openConfirmDelete = FALSE
    /\ query = <<>>
    /\ reload = FALSE

ViewCenter == [x |-> 5, y |-> 6]
DevNames == { <<"S", "W">>, <<" ", "R">> }

\* The process starts, the tab loads, and the user draws devices and links
\* while the store has room for a row besides them.
Drawing ==
    \/ EnsureSchemaStatement
    \/ Listen
    \/ StartCatch
    \/ load
    \/ loadSettled
    \/ \E devName \in DevNames :
           /\ nextUuid < MaxUuid - 1
           /\ submitCreateDevice(devName, "switch", " ", ViewCenter)
    \/ submitCreateDeviceSettled
    \/ \E linkLabel \in {""} :
           /\ nextUuid < MaxUuid - 1
           /\ submitCreateLink(linkLabel)
    \/ submitCreateLinkSettled

\* Selecting, and the create-link form, with another client linking
\* device 1 to itself.
NextSelection ==
    \/ Drawing
    \/ \E n \in NodeIds \cup {NullId}, e \in EdgeIds \cup {NullId} :
           onSelectionChange(n, e)
    \/ \E id \in NodeIds \cup {0} : zoomToNode(id)
    \/ \E id \in NodeIds : setLinkFrom(id)
    \/ \E id \in NodeIds : setLinkTo(id)
    \/ confirmDelete
    \/ confirmDeleteSettled
    \/ Route(PostLinks(SelfLink))

SpecSelection == InitCanvas /\ [][NextSelection]_vars

\* Status changes, with another client deleting device 1.
NextStatus ==
    \/ Drawing
    \/ \E id \in NodeIds : zoomToNode(id)
    \/ \E e \in EdgeIds : onSelectionChange(NullId, e)
    \/ \E status \in {"warn"} : changeNodeStatus(status)
    \/ changeNodeStatusSettled
    \/ \E status \in {"down"} : changeEdgeStatus(status)
    \/ changeEdgeStatusSettled
    \/ Route(DeleteDevices(1))

SpecStatus == InitCanvas /\ [][NextStatus]_vars

\* Where a dragged node is released.
DragTarget == [x |-> 8, y |-> 9]

\* Position updates, with another client deleting device 1.
NextLayout ==
    \/ Drawing
    \/ \E id \in NodeIds : onNodeDragStop(id, DragTarget.x, DragTarget.y)
    \/ onNodeDragStopSettled
    \/ autoLayoutAndSave
    \/ \E req \in inflight : autoLayoutRequestSettled(req)
    \/ \E req \in inflight : abandonedRequestSettled(req)
    \/ Route(DeleteDevices(1))

SpecLayout == InitCanvas /\ [][NextLayout]_vars

\* The device the user selects and drags where every operation is run.
TouchedIds == {1}

\* Every operation of the tab that calls the Repository, with another
\* client deleting device 1.
NextCanvas ==
    \/ Drawing
    \/ \E id \in NodeIds \cap TouchedIds : zoomToNode(id)
    \/ \E e \in EdgeIds : onSelectionChange(NullId, e)
    \/ \E status \in {"warn"} : changeNodeStatus(status)
    \/ changeNodeStatusSettled
    \/ \E status \in {"down"} : changeEdgeStatus(status)
    \/ changeEdgeStatusSettled
    \/ \E id \in NodeIds \cap TouchedIds :
           onNodeDragStop(id, DragTarget.x, DragTarget.y)
    \/ onNodeDragStopSettled
    \/ confirmDelete
    \/ confirmDeleteSettled
    \/ autoLayoutAndSave
    \/ \E req \in inflight : autoLayoutRequestSettled(req)
    \/ \E req \in inflight : abandonedRequestSettled(req)
    \/ Route(DeleteDevices(1))

SpecCanvas == InitCanvas /\ [][NextCanvas]_vars

\* Deleting through the confirmation dialog, with another client deleting
\* device 1. "Deletar" of the dialog runs confirmDelete whenever the dialog
\* is open: its disabled attribute is not relied on, so that the branch of
\* the handler for an empty selection is run too.
NextDelete ==
    \/ Drawing
    \/ \E n \in NodeIds \cup {NullId}, e \in EdgeIds \cup {NullId} :
           onSelectionChange(n, e)
    \/ \E key \in {"Delete", "Backspace", "k"} : onKeyDown(key)
    \/ \E open \in BOOLEAN : setOpenConfirmDelete(open)
    \/ openConfirmDelete /\ confirmDelete
    \/ confirmDeleteSettled
    \/ Route(DeleteDevices(1))

SpecDelete == InitCanvas /\ [][NextDelete]_vars

\* What is typed into the search input.
Queries ==
    { <<>>, <<" ">>, <<" ", "W", " ">>, <<"0", ".">>, <<"2">>, <<"a", "p">>,
      <<"x">> }

\* Searching among the devices the user has created.
NextSearch ==
    \/ EnsureSchemaStatement
    \/ Listen
    \/ StartCatch
    \/ loadSettled
    \/ \E devName \in {<<"S", "W">>, <<"A", "P">>}, devType \in {"router", "ap"},
          devIp \in {" ", "10.0.0.1"} :
           /\ nextUuid < MaxUuid - 2
           /\ submitCreateDevice(devName, devType, devIp, ViewCenter)
    \/ submitCreateDeviceSettled
    \/ \E value \in Queries : setQuery(value)

SpecSearch == InitCanvas /\ [][NextSearch]_vars

\* Status changes and a reload overlapping them, the tab being the only
\* client of the store. The route serving the reload runs its devices
\* query at any moment after the request is sent.
NextReload ==
    \/ EnsureSchemaStatement
    \/ Listen
    \/ StartCatch
    \/ ~reload /\ Drawing
    \/ \E id \in NodeIds \cap TouchedIds : zoomToNode(id)
    \/ \E e \in EdgeIds : onSelectionChange(NullId, e)
    \/ \E status \in {"warn"} : changeNodeStatus(status)
    \/ changeNodeStatusSettled
    \/ \E status \in {"down"} : changeEdgeStatus(status)
    \/ changeEdgeStatusSettled
    \/ loadOverlapping
    \/ reload /\ RouteStep(GetTopologyDevices)
    \/ loadOverlappingSettled

SpecReload == InitCanvas /\ [][NextReload]_vars

\* ------------------------------------------------------------- properties
IsEscaped(r) == r \in Escaped(r.op)

\* The (from_id, to_id, from_handle, to_handle) tuple a Link-create body names.
DuplicatesTuple(b) ==
    \E i \in DOMAIN links :
        /\ links[i].from_id = b.fromId
        /\ links[i].to_id = b.toId
        /\ links[i].from_handle = Get(b, "fromHandle", Null)
        /\ links[i].to_handle = Get(b, "toHandle", Null)

\* C1: a POST /links whose (from_id, to_id, from_handle, to_handle) tuple
\* equals that of a stored link, both handles omitted included, answers 409
\* and leaves the stored links as they were.
C1_DuplicateLinkConflict ==
    [][\A b \in LinkCreateBodies :
          (linkCreateSchema(b) /\ DuplicatesTuple(b) /\ PostLinks(b))
              => (res'.status = 409 /\ links' = links)]_vars

\* C2: a POST /links whose fromId or toId is a well-formed uuid with no
\* device row answers 400 (invalid reference) and leaves the stored links as
\* they were.
C2_DanglingLinkInvalidReference ==
    [][\A b \in LinkCreateBodies :
          (/\ linkCreateSchema(b)
           /\ (b.fromId \notin DOMAIN devices \/ b.toId \notin DOMAIN devices)
           /\ PostLinks(b))
              => (/\ res' = Resp("POST /links", 400,
                                 "fromId/toId invalid (device not found)")
                  /\ links' = links)]_vars

\* Every link references two stored devices.
LinksReferenceDevices ==
    \A i \in DOMAIN links :
        links[i].from_id \in DOMAIN devices /\ links[i].to_id \in DOMAIN devices

\* C3: after a DELETE /devices/:id answered 204 no stored link has the id as
\* from_id or to_id and every link that referenced it at neither end is
\* still stored, unchanged; and in every state each link's from_id and to_id
\* are stored devices.
C3_DeleteCascades ==
    /\ []LinksReferenceDevices
    /\ [][\A id \in TargetIds :
             (DeleteDevices(id) /\ res'.status = 204)
                 => (/\ \A i \in DOMAIN links' :
                           links'[i].from_id # id /\ links'[i].to_id # id
                     /\ \A i \in DOMAIN links :
                           (links[i].from_id # id /\ links[i].to_id # id)
                               => (i \in DOMAIN links' /\ links'[i] = links[i]))]_vars

\* A device was deleted with 204, a link survived it, and two of the four
\* rows inserted are gone.
C3_Witness ==
    /\ res = Resp("DELETE /devices/:id", 204, "")
    /\ nextUuid = 4
    /\ DOMAIN devices = {2}
    /\ DOMAIN links = {4}

\* C4: against the schema ensureSchema creates, every body that passes
\* deviceCreateSchema is answered 201, and the persisted row has status "up"
\* when status is omitted and x = 0, y = 0 when the coordinates are omitted.
C4_CreateDeviceSucceeds ==
    [][\A b \in {MinimalDevice, ShortName} :
          (/\ storeTypes = StoreTypesOfSchema
           /\ deviceCreateSchema(b)
           /\ nextUuid < MaxUuid
           /\ PostDevices(b))
              => (/\ res'.status = 201
                  /\ nextUuid' \in DOMAIN devices'
                  /\ ~Has(b, "status") => devices'[nextUuid'].status = "up"
                  /\ ~Has(b, "x") => devices'[nextUuid'].x = 0
                  /\ ~Has(b, "y") => devices'[nextUuid'].y = 0)]_vars

\* C5: PATCH /devices/:id leaves every link, every other device and every
\* column of the device that the body does not name as a validated field
\* (id and created_at among them) as they were, and when it answers 200 each
\* validated field of the body is the value of its column.
C5_PartialUpdateFrame ==
    [][\A id \in UpdateIds, b \in DeviceUpdateBodies :
          (res'.op = "PATCH /devices/:id" /\ PatchDevices(id, b))
              => (/\ links' = links
                  /\ DOMAIN devices' = DOMAIN devices
                  /\ \A i \in (DOMAIN devices) \ {id} : devices'[i] = devices[i]
                  /\ id \in DOMAIN devices =>
                        /\ \A k \in (DOMAIN devices[id]) \ ((DOMAIN b) \cap DeviceKeys) :
                              devices'[id][k] = devices[id][k]
                        /\ res'.status = 200 =>
                              \A k \in (DOMAIN b) \cap DeviceKeys :
                                  devices'[id][k] = b[k])]_vars

\* A status-only update was answered 200 on a device that had been renamed
\* and moved, and that carries a link.
C5_Witness ==
    /\ res = Resp("PATCH /devices/:id", 200, "row")
    /\ 1 \in DOMAIN devices
    /\ devices[1].status = "warn"
    /\ devices[1].name = <<"H", "B">>
    /\ devices[1].x = 3
    /\ devices[1].y = 4
    /\ links # NoRows

\* C6: when two PATCH /devices/:id requests on one device that name disjoint
\* columns were in flight together and both were answered 200, in either
\* order, the row holds both requests' values.
C6_DisjointUpdatesBothKept ==
    \A c, d \in Callers :
        (/\ c # d
         /\ pending[c].phase = "done"
         /\ pending[d].phase = "done"
         /\ pending[c].id = pending[d].id
         /\ (DOMAIN pending[c].set) \cap (DOMAIN pending[d].set) = {}
         /\ pending[c].id \in DOMAIN devices)
            => \A k \in DOMAIN pending[c].set :
                   devices[pending[c].id][k] = pending[c].set[k]

\* Both callers' overlapping requests, one on status and one on x, were
\* answered 200.
C6_Witness ==
    /\ pending["c1"].phase = "done"
    /\ pending["c2"].phase = "done"
    /\ pending["c1"].id = 1
    /\ pending["c2"].id = 1
    /\ DOMAIN pending["c1"].set = {"x"}
    /\ DOMAIN pending["c2"].set = {"status"}
    /\ 1 \in DOMAIN devices

\* C7: in a store where every statement parses, no response is an
\* unconverted store error: each constraint violation is answered with a
\* named outcome (400, 404 or 409).
C7_NoStoreErrorEscapes ==
    storeTypes = CastTypes => ~IsEscaped(res)

\* C8: for a well-formed id with no row, device get-by-id, partial-update,
\* position-update and delete, and link partial-update and delete, answer
\* 404 and leave devices and links as they were.
C8_AbsentIdNotFound ==
    [][/\ \A id \in UpdateIds :
             (IsUuid(id) /\ id \notin DOMAIN devices)
                 => /\ GetDevice(id) => (res'.status = 404 /\ UNCHANGED <<devices, links>>)
                    /\ DeleteDevices(id) => (res'.status = 404 /\ UNCHANGED <<devices, links>>)
                    /\ \A b \in DeviceUpdateBodies :
                          (PatchDevicesReject(id, b) = "none" /\ PatchDevices(id, b))
                              => (res'.status = 404 /\ UNCHANGED <<devices, links>>)
                    /\ \A b \in PositionBodies :
                          (devicePositionSchema(b) /\ PatchPosition(id, b))
                              => (res'.status = 404 /\ UNCHANGED <<devices, links>>)
       /\ \A id \in LinkUpdateIds :
             (IsUuid(id) /\ id \notin DOMAIN links)
                 => /\ DeleteLinks(id) => (res'.status = 404 /\ UNCHANGED <<devices, links>>)
                    /\ \A b \in LinkStatusBodies :
                          (PatchLinksReject(id, b) = "none" /\ PatchLinks(id, b))
                              => (res'.status = 404 /\ UNCHANGED <<devices, links>>)]_vars

\* C9: a PATCH /devices/:id or PATCH /links/:id whose body names no
\* recognized field is answered 400 and writes nothing, whether or not the
\* id has a row.
C9_NoFieldsRejected ==
    [][/\ \A id \in UpdateIds, b \in DeviceUpdateBodies :
             ((DOMAIN b) \cap DeviceKeys = {} /\ res'.op = "PATCH /devices/:id"
                 /\ PatchDevices(id, b))
                 => (res'.status = 400 /\ UNCHANGED <<devices, links>>)
       /\ \A id \in LinkUpdateIds, b \in LinkStatusBodies :
             ((DOMAIN b) \cap LinkUpdateKeys = {} /\ res'.op = "PATCH /links/:id"
                 /\ PatchLinks(id, b))
                 => (res'.status = 400 /\ UNCHANGED <<devices, links>>)]_vars

\* An update without fields was rejected in a store that holds device 1 and
\* a link.
C9_Witness ==
    /\ res.status = 400
    /\ res.msg = "No fields to update"
    /\ 1 \in DOMAIN devices
    /\ links # NoRows

\* C10 as stated: a PATCH /devices/:id/position whose body is not exactly
\* {x, y} (a field missing, or a field added) is answered 400 and leaves the
\* devices as they were.
C10_PositionExactlyXY ==
    [][\A id \in UpdateIds, b \in PositionBodies :
          (IsUuid(id) /\ DOMAIN b # {"x", "y"} /\ PatchPosition(id, b))
              => (res'.status = 400 /\ devices' = devices)]_vars

\* C10, amended: a body missing x or y is answered 400 and leaves the
\* devices as they were; a body that carries x and y is handled as its x and
\* y alone, any other field ignored: 404 without a row, else 200 with x and
\* y stored and every other column, device and link as it was.
C10_PositionNeedsXY ==
    [][\A id \in UpdateIds, b \in PositionBodies :
          (res'.op = "PATCH /devices/:id/position" /\ IsUuid(id) /\ PatchPosition(id, b))
              => /\ ~(Has(b, "x") /\ Has(b, "y"))
                        => (res'.status = 400 /\ UNCHANGED <<devices, links>>)
                 /\ (Has(b, "x") /\ Has(b, "y") /\ id \notin DOMAIN devices)
                        => (res'.status = 404 /\ UNCHANGED <<devices, links>>)
                 /\ (Has(b, "x") /\ Has(b, "y") /\ id \in DOMAIN devices)
                        => /\ res'.status = 200
                           /\ links' = links
                           /\ devices' = [devices EXCEPT ![id].x = b.x, ![id].y = b.y]]_vars

\* The position body that carries an extra field was stored.
C10_Witness ==
    /\ res = Resp("PATCH /devices/:id/position", 200, "row")
    /\ 1 \in DOMAIN devices
    /\ devices[1].x = 3
    /\ devices[1].y = 4

\* The rows of body are exactly the rows of table, each once, in the order
\* they were inserted (a row's uuid is its insert number).
IsListingOf(body, table) ==
    /\ Len(body) = Cardinality(DOMAIN table)
    /\ \A i \in 1..Len(body) :
           /\ body[i].id \in DOMAIN table
           /\ body[i] = table[body[i].id]
    /\ \A i, j \in 1..Len(body) : i < j => body[i].id < body[j].id

\* The uuids of a listing, in its order.
ListedOrder(table) ==
    [i \in 1..Cardinality(DOMAIN table) |-> OrderByCreatedAt(table)[i].id]

UpdateRoutes ==
    {"PATCH /devices/:id", "PATCH /devices/:id/position", "PATCH /links/:id"}

\* C11: whatever creates, partial updates, position updates and deletes
\* came before, GET /devices and GET /links answer exactly the surviving
\* rows in the order they were created, and no update route changes the
\* place of any row in either listing.
C11_ListingsInCreationOrder ==
    /\ [](res.op = "GET /devices" => IsListingOf(res.body, devices))
    /\ [](res.op = "GET /links" => IsListingOf(res.body, links))
    /\ [][res'.op \in UpdateRoutes =>
             /\ ListedOrder(devices') = ListedOrder(devices)
             /\ ListedOrder(links') = ListedOrder(links)]_vars

\* A listing of two devices whose first row has been updated.
C11_Witness ==
    /\ res.op = "GET /devices"
    /\ Len(res.body) >= 2
    /\ res.body[1].status = "warn"
    /\ res.body[1].x = 1

\* C12: with no write between its two queries, GET /topology answers one
\* node per device, with the device's id and its (x, y) as position, and
\* one edge per link, with source = from_id and target = to_id: N nodes
\* and M edges, each list in creation order.
C12_TopologyProjection ==
    res.op = "GET /topology" =>
        LET n == res.body.nodes
            e == res.body.edges
        IN /\ Len(n) = Cardinality(DOMAIN devices)
           /\ Len(e) = Cardinality(DOMAIN links)
           /\ \A i \in 1..Len(n) :
                  /\ n[i].id \in DOMAIN devices
                  /\ n[i].position = [x |-> devices[n[i].id].x,
                                      y |-> devices[n[i].id].y]
           /\ \A i \in 1..Len(e) :
                  /\ e[i].id \in DOMAIN links
                  /\ e[i].source = links[e[i].id].from_id
                  /\ e[i].target = links[e[i].id].to_id
           /\ \A i, j \in 1..Len(n) : i < j => n[i].id < n[j].id
           /\ \A i, j \in 1..Len(e) : i < j => e[i].id < e[j].id

\* A topology of two placed devices and a link between them.
C12_Witness ==
    /\ res.op = "GET /topology"
    /\ Len(res.body.nodes) = 2
    /\ Len(res.body.edges) >= 1
    /\ res.body.edges[1].source # res.body.edges[1].target
    /\ res.body.nodes[2].position.x # res.body.nodes[2].position.y

\* C13: the process listens only once every statement of ensureSchema has
\* succeeded, answers requests only while it listens, and once a schema
\* statement has failed it exits without ever listening.
C13_ListenOnlyAfterSchema ==
    /\ [](server.pc = "listening" => server.stmt = Len(SchemaStatements))
    /\ [](res.op # "none" => server.pc = "listening")
    /\ [][server.pc = "rejected" => server'.pc = "exited"]_vars
    /\ [][server.pc = "exited" => server'.pc = "exited"]_vars

\* The process listening after all five statements, a request answered.
C13_Witness ==
    /\ server.pc = "listening"
    /\ server.stmt = Len(SchemaStatements)
    /\ res.status = 201

\* C14: in every reachable state at most one of selectedNodeId and
\* selectedEdgeId is set, also after a selection-change event that reports
\* nodes and edges together, and after zoom-to-node.
C14_SelectionExclusive == selectedNodeId = NullId \/ selectedEdgeId = NullId

\* The awaited call of the suspended handler settles in this step, and fails.
CallFailed == ~(server.pc = "listening" /\ res'.status \in 200..299)

\* C20: a submitCreateLink with source and target equal, or either empty,
\* sends no request and shows a notification instead; a POST /links whose
\* fromId and toId name the same existing device is answered 201 and the
\* link is stored.
C20_SelfLinkGuardedInCanvasOnly ==
    /\ [][(/\ task = Idle
           /\ \/ linkFrom = linkTo
              \/ linkFrom = EmptyId
              \/ linkTo = EmptyId
           /\ \E linkLabel \in {""} : submitCreateLink(linkLabel))
          => /\ inflight' = inflight
             /\ calls' = <<>>
             /\ task' = Idle
             /\ toast' \in {"Selecione origem e destino.",
                            "Origem e destino nao podem ser iguais."}
             /\ res' = res]_vars
    /\ [][(/\ res'.op = "POST /links"
           /\ SelfLink.fromId \in DOMAIN devices
           /\ Route(PostLinks(SelfLink)))
          => /\ res'.status = 201
             /\ \E id \in DOMAIN links' \ DOMAIN links :
                    /\ links'[id].from_id = SelfLink.fromId
                    /\ links'[id].to_id = SelfLink.fromId]_vars

\* The form names one device twice and the guard has answered; the
\* store holds a link of device 1 to itself.
C20_Witness ==
    /\ linkFrom = linkTo
    /\ linkFrom \in NodeIds
    /\ toast = "Origem e destino nao podem ser iguais."
    /\ \E id \in DOMAIN links : links[id].from_id = links[id].to_id

\* C17: a status change on the selected node or edge sends exactly one
\* partial-update call, for that entity, whose body holds status and
\* nothing else, and changes nothing locally yet; when the call succeeds
\* the status of that entity alone changes locally, and when it fails no
\* node and no edge changes.
C17_StatusChangeAfterSuccess ==
    /\ [][(task = Idle /\ task'.op \in {"changeNodeStatus", "changeEdgeStatus"})
          => /\ Len(calls') = 1
             /\ calls'[1] = task'.req
             /\ inflight' = inflight \cup {calls'[1]}
             /\ DOMAIN calls'[1].json = {"status"}
             /\ IF task'.op = "changeNodeStatus"
                THEN /\ calls'[1].call = "patchDeviceStatus"
                     /\ calls'[1].id = selectedNodeId
                ELSE /\ calls'[1].call = "patchLinkStatus"
                     /\ calls'[1].id = selectedEdgeId
             /\ nodes' = nodes
             /\ edges' = edges]_vars
    /\ [][(task.op = "changeNodeStatus" /\ task' # task)
          => /\ task' = Idle
             /\ calls' = calls
             /\ edges' = edges
             /\ Len(nodes') = Len(nodes)
             /\ \A i \in 1..Len(nodes) :
                    nodes'[i] =
                        IF ~CallFailed /\ nodes[i].id = task.req.id
                        THEN [nodes[i] EXCEPT !.data.status = task.req.json.status]
                        ELSE nodes[i]]_vars
    /\ [][(task.op = "changeEdgeStatus" /\ task' # task)
          => /\ task' = Idle
             /\ calls' = calls
             /\ nodes' = nodes
             /\ Len(edges') = Len(edges)
             /\ \A i \in 1..Len(edges) :
                    /\ edges'[i].data.status =
                           IF ~CallFailed /\ edges[i].id = task.req.id
                           THEN task.req.json.status
                           ELSE edges[i].data.status
                    /\ edges'[i].id = edges[i].id
                    /\ edges'[i].source = edges[i].source
                    /\ edges'[i].target = edges[i].target]_vars

\* One of two nodes has been set to warn, the server having accepted it.
C17_Witness ==
    /\ toast = "Status do equipamento atualizado"
    /\ task = Idle
    /\ Len(nodes) = 2
    /\ \E i, j \in 1..Len(nodes) :
           /\ nodes[i].data.status = "warn"
           /\ nodes[j].data.status = "up"
           /\ nodes[i].id \in DOMAIN devices
           /\ devices[nodes[i].id].status = "warn"

\* C19: a drag-release sends exactly one position-update call, for the
\* dragged node and with the coordinates the node now has locally; when
\* the call settles, failed or not, the local position stays where the
\* drag left it, and a failure is notified.
C19_DragReleasePersistsOnce ==
    /\ [][(task = Idle /\ task'.op = "onNodeDragStop")
          => /\ Len(calls') = 1
             /\ calls'[1] = task'.req
             /\ calls'[1].call = "patchDevicePosition"
             /\ inflight' = inflight \cup {calls'[1]}
             /\ \E i \in 1..Len(nodes') :
                    /\ nodes'[i].id = calls'[1].id
                    /\ nodes'[i].position = calls'[1].json
             /\ \A i \in 1..Len(nodes) :
                    nodes[i].id # calls'[1].id => nodes'[i] = nodes[i]]_vars
    /\ [][(task.op = "onNodeDragStop" /\ task' # task)
          => /\ task' = Idle
             /\ calls' = calls
             /\ nodes' = nodes
             /\ edges' = edges
             /\ toast' = IF CallFailed THEN "Falha ao salvar posicao"
                         ELSE "Posicao salva"]_vars

\* A drag whose persist failed: the node stays where it was released,
\* the store has no such position.
C19_Witness ==
    /\ toast = "Falha ao salvar posicao"
    /\ task = Idle
    /\ \E i \in 1..Len(nodes) :
           /\ nodes[i].position = DragTarget
           /\ nodes[i].id \notin DOMAIN devices

\* reqs is one position-update call per node of ns, in order, each with
\* the position the node has in ns.
IsBatchOf(reqs, ns) ==
    /\ Len(reqs) = Len(ns)
    /\ \A i \in 1..Len(ns) :
           reqs[i] = [call |-> "patchDevicePosition", id |-> ns[i].id,
                      json |-> ns[i].position]

\* Auto-layout sends its batch: one call per current node, all of them in
\* flight before any has settled.
BatchIssued ==
    (task = Idle /\ task'.op = "autoLayoutAndSave")
    => /\ Len(nodes') = Len(nodes)
       /\ \A i \in 1..Len(nodes) : nodes'[i].id = nodes[i].id
       /\ IsBatchOf(calls', nodes')
       /\ inflight' = inflight \cup Range(calls')
       /\ res' = res
       /\ devices' = devices

\* A failing call of the batch is notified once, by the step in which it
\* settles; calls that settle after the operation has ended notify nothing.
OneAggregateNotification ==
    /\ (task.op = "autoLayoutAndSave" /\ task' # task /\ CallFailed)
       => toast' = "Erro no layout" /\ task' = Idle
    /\ (task' = task /\ inflight' # inflight /\ inflight' \subseteq inflight)
       => toast' = toast

\* The failure of one call undoes nothing: not in the store, where the
\* positions already written stay, and not on the canvas.
NothingRolledBack ==
    (task.op = "autoLayoutAndSave" /\ task' # task /\ CallFailed)
    => devices' = devices /\ nodes' = nodes

\* C16: auto-layout sends exactly one position-update call per current
\* node, all before any is awaited; the operation ends only once every
\* call of the batch has settled; a failure is notified exactly once;
\* positions already persisted are not rolled back.
C16_BatchSettlesBeforeCompletion ==
    [][/\ BatchIssued
       /\ (task.op = "autoLayoutAndSave" /\ task' = Idle)
          => Range(calls) \cap inflight' = {}
       /\ OneAggregateNotification
       /\ NothingRolledBack]_vars

\* C16 as amended: as above, but the operation waits for every call only
\* when all succeed; the first failure ends it at once, whatever is still
\* in flight.
C16_BatchFailsFast ==
    [][/\ BatchIssued
       /\ (task.op = "autoLayoutAndSave" /\ task' = Idle /\ ~CallFailed)
          => /\ Range(calls) \cap inflight' = {}
             /\ toast' = "Layout aplicado e salvo"
       /\ OneAggregateNotification
       /\ NothingRolledBack]_vars

\* The failure of a batch of two has been notified while its other call
\* is still in flight.
C16_Witness ==
    /\ toast = "Erro no layout"
    /\ task = Idle
    /\ Len(calls) = 2
    /\ Range(calls) \cap inflight # {}

\* The notification the catch of each handler shows.
FailureToast(op) ==
    CASE op = "load" -> "Erro ao carregar"
      [] op = "changeNodeStatus" -> "Falha ao atualizar"
      [] op = "changeEdgeStatus" -> "Falha ao atualizar link"
      [] op = "submitCreateDevice" -> "Erro ao criar"
      [] op = "submitCreateLink" -> "Erro ao conectar"
      [] op = "confirmDelete" -> "Erro ao deletar"
      [] op = "autoLayoutAndSave" -> "Erro no layout"
      [] op = "onNodeDragStop" -> "Falha ao salvar posicao"

\* The call the suspended handler awaits settles in this step, and fails.
AwaitedCallFails == task # Idle /\ task' # task /\ CallFailed

\* A handler runs up to its first await in this step.
HandlerStarts == task = Idle /\ task' # Idle

\* C15: every failure of a Repository call (load, status change,
\* create-device, create-link, delete, auto-layout) is caught and notified
\* and leaves nodes and edges exactly as they were before the operation;
\* only a drag-release may leave local state changed by then.
C15_FailureLeavesStateAsBefore ==
    [][AwaitedCallFails
       => /\ toast' = FailureToast(task.op)
          /\ task' = Idle
          /\ edges' = edges
          /\ task.op # "onNodeDragStop"
             => nodes' = IF task.op = "autoLayoutAndSave" THEN task.nodes
                         ELSE nodes]_vars

\* C15 as amended: every such failure is caught and notified, and handling
\* it changes no node and no edge; load, status change, create-device,
\* create-link and delete have changed none before either, while a
\* drag-release and an auto-layout have moved nodes before persisting and
\* leave them moved.
C15_FailureNotifiedNothingReverted ==
    [][/\ AwaitedCallFails
          => /\ toast' = FailureToast(task.op)
             /\ task' = Idle
             /\ edges' = edges
             /\ nodes' = nodes
       /\ (HandlerStarts /\ task'.op \notin {"onNodeDragStop", "autoLayoutAndSave"})
          => nodes' = nodes /\ edges' = edges]_vars

\* An auto-layout of two nodes has failed and its placement is still on
\* the canvas, the store knowing nothing of the second node's place.
C15_Witness ==
    /\ toast = "Erro no layout"
    /\ task = Idle
    /\ Len(nodes) = 2
    /\ nodes[2].position.x = DagreNode(2).x - 110
    /\ nodes[2].id \in DOMAIN devices
    /\ devices[nodes[2].id].x # nodes[2].position.x

\* The operation of the suspended handler succeeds in this step: its
\* call, or the last call of its batch, is accepted.
Succeeds(op) ==
    /\ task.op = op
    /\ task' # task
    /\ ~CallFailed
    /\ op = "autoLayoutAndSave" => task'.op # "autoLayoutAndSave"

\* load() is called in this step.
Reloads ==
    /\ task' = [op |-> "load"]
    /\ calls' = Append(calls, fetchTopology)
    /\ fetchTopology \in inflight'

\* The handler ends in this step, calling nothing more.
EndsWithoutReload == task' = Idle /\ calls' = calls /\ inflight' \subseteq inflight

\* C18: every successful mutation (create-device, create-link, delete,
\* drag position update, auto-layout) is followed by a full reload; only
\* the two status updates are not.
C18_ReloadAfterEveryMutation ==
    [][/\ (\E op \in {"submitCreateDevice", "submitCreateLink", "confirmDelete",
                      "onNodeDragStop", "autoLayoutAndSave"} : Succeeds(op))
          => Reloads
       /\ (\E op \in {"changeNodeStatus", "changeEdgeStatus"} : Succeeds(op))
          => EndsWithoutReload]_vars

\* C18 as amended: a successful create-device, create-link or delete is
\* followed by a full reload; the two status updates, the drag position
\* update and auto-layout are not.
C18_ReloadAfterCreateAndDelete ==
    [][/\ (\E op \in {"submitCreateDevice", "submitCreateLink", "confirmDelete"} :
               Succeeds(op))
          => Reloads
       /\ (\E op \in {"changeNodeStatus", "changeEdgeStatus", "onNodeDragStop",
                      "autoLayoutAndSave"} : Succeeds(op))
          => EndsWithoutReload]_vars

\* A delete has been accepted and its reload is in flight.
C18_Witness ==
    /\ toast \in {"Equipamento deletado", "Link deletado"}
    /\ task = [op |-> "load"]
    /\ Len(calls) = 2
    /\ calls[1].call \in {"deleteDevice", "deleteLink"}
    /\ calls[2] = fetchTopology
    /\ fetchTopology \in inflight

\* The delete requests sent in this step.
DeleteRequestsSent ==
    {r \in inflight' \ inflight : r.call \in {"deleteDevice", "deleteLink"}}

\* The one delete request the selection stands for, if any.
DeleteOfSelection ==
    IF selectedNode # NullId
    THEN {[call |-> "deleteDevice", id |-> selectedNode, json |-> EmptyBody]}
    ELSE IF selectedEdge # NullId
    THEN {[call |-> "deleteLink", id |-> selectedEdge, json |-> EmptyBody]}
    ELSE {}

\* C21: confirming a delete issues at most one delete request, deleteDevice
\* for the selected node, otherwise deleteLink for the selected edge, and
\* none when nothing is selected; on success the selection is cleared, on
\* failure the selection and the confirmation dialog are left as they were.
C21_DeleteTargetsSelection ==
    [][/\ DeleteRequestsSent \subseteq DeleteOfSelection
       /\ Cardinality(DeleteRequestsSent) <= 1
       /\ (task = Idle /\ task'.op = "confirmDelete")
          => /\ DeleteRequestsSent = DeleteOfSelection
             /\ calls' = <<task'.req>>
             /\ task'.req \in DeleteOfSelection
       /\ (task.op = "confirmDelete" /\ task' # task)
          => /\ DeleteRequestsSent = {}
             /\ IF CallFailed
                THEN /\ toast' = "Erro ao deletar"
                     /\ UNCHANGED <<selectedNodeId, selectedEdgeId, openConfirmDelete>>
                ELSE /\ selectedNodeId' = NullId
                     /\ selectedEdgeId' = NullId]_vars

\* A delete of the selected device was confirmed and refused: the dialog
\* is still open on the same selection.
C21_Witness ==
    /\ toast = "Erro ao deletar"
    /\ task = Idle
    /\ openConfirmDelete
    /\ selectedNodeId = 1
    /\ calls = <<[call |-> "deleteDevice", id |-> 1, json |-> EmptyBody]>>

\* q is a run of consecutive characters of text.
IsSubstring(q, text) ==
    \E i \in 1..(Len(text) + 1), j \in 0..Len(text) : SubSeq(text, i, j) = q

\* The node holds the lower-cased q in its name, ip, type or id.
Holds(n, q) ==
    \/ IsSubstring(q, toLowerCase(n.data.name))
    \/ "ip" \in DOMAIN n.data /\ IsSubstring(q, toLowerCase(Chars(n.data.ip)))
    \/ IsSubstring(q, toLowerCase(Chars(n.data.type)))
    \/ IsSubstring(q, toLowerCase(IdChars(n.id)))

\* The positions of nodes whose node holds q.
HoldingAt(q) == {i \in 1..Len(nodes) : Holds(nodes[i], q)}

\* C22: the search result is the in-memory nodes, in their order, for which
\* the trimmed, lower-cased query is a substring of the lower-cased name,
\* ip, type or id, an empty or blank query giving no result; typing a query
\* calls the Repository for nothing.
C22_SearchFiltersInMemoryNodes ==
    /\ [](LET q == toLowerCase(Trim(query))
          IN IF \A i \in 1..Len(query) : query[i] = " "
             THEN filteredNodes = <<>>
             ELSE /\ Len(filteredNodes) = Cardinality(HoldingAt(q))
                  /\ \A k \in 1..Len(filteredNodes) :
                         \E i \in HoldingAt(q) :
                             /\ filteredNodes[k] = nodes[i]
                             /\ Cardinality({j \in HoldingAt(q) : j <= i}) = k)
    /\ [][query' # query
          => /\ calls' = calls
             /\ inflight' = inflight
             /\ UNCHANGED <<devices, links, res, nodes, edges>>]_vars

\* Two nodes are loaded and a query written in upper case between blanks
\* is held by the middle of the name of the second alone.
C22_Witness ==
    /\ query = <<" ", "W", " ">>
    /\ Len(nodes) = 2
    /\ filteredNodes = <<nodes[2]>>
    /\ nodes[2].data.name = <<"S", "W">>

\* C23: every GET /topology response is self-consistent, whatever
\* requests are processed while it is served: the source and the target of
\* each of its edges is the id of a node of the same response.
C23_TopologyResponseSelfConsistent ==
    res.op = "GET /topology"
    => LET body == res.body
           ids == {body.nodes[i].id : i \in 1..Len(body.nodes)}
       IN \A i \in 1..Len(body.edges) :
              body.edges[i].source \in ids /\ body.edges[i].target \in ids

\* No call is in flight and no handler is suspended.
AllSettled ==
    inflight = {} /\ task = Idle /\ ~reload /\ queried = NotQueried

\* C24: with one tab and no other writer, once every call in flight has
\* settled the status of each node and each edge in memory is the status
\* the store holds, however a status change and a reload overlap.
C24_StatusConvergesToStore ==
    AllSettled
    => /\ \A i \in 1..Len(nodes) :
              nodes[i].id \in DOMAIN devices
              => nodes[i].data.status = devices[nodes[i].id].status
       /\ \A i \in 1..Len(edges) :
              edges[i].id \in DOMAIN links
              => edges[i].data.status = links[edges[i].id].status

====
